---- MODULE Spec2Model ----
(***************************************************************************)
(* A model of the blink-data-pipeline repository:                          *)
(*   - src/src/ingest.py         the State Store (state.json), format_since *)
(*                               and the fetch cycle ingest_new_clips       *)
(*   - src/src/blink_client.py   get_blink_client                           *)
(*   - src/src/extract_frames.py extract_frames_from_folder                 *)
(* Spec is the fetch stage (ingest_new_clips run again and again as the    *)
(* clock moves), SpecStore the State Store and format_since called one by  *)
(* one, SpecFrames one run of extract_frames_from_folder.                  *)
(***************************************************************************)
EXTENDS Integers, Sequences, FiniteSets, TLC

VARIABLES
    now,          \* the wall clock (datetime.now())
    stateFile,    \* what is stored at STATE_PATH (data/meta_data/state.json)
    metaDir,      \* META_DIR exists
    authFile,     \* AUTH_PATH exists
    rawDir,       \* RAW_CLIPS_DIR exists
    clients,      \* number of Blink(session=...) objects constructed so far
    requests,     \* the blink.download_videos calls made so far
    last,         \* the last call of a function of ingest.py and how it ended
    folder,       \* the files of input_folder
    pc,           \* where a run of extract_frames_from_folder stands
    interval_seconds, \* the run's interval_seconds argument
    video_files,  \* the sorted list of video files of the run
    vi,           \* index in video_files of the next video of the for loop
    counter,      \* the frame counter of the run
    written,      \* the frames written by cv2.imwrite, in order
    log,          \* per processed video, what the run printed about it
    cur,          \* what cv2 found in the video processed last
    reported      \* the total printed by "Done! Extracted ... frames total."

ingestVars == <<now, stateFile, metaDir, authFile, rawDir, clients, requests, last>>
frameVars == <<folder, pc, interval_seconds, video_files, vi, counter, written,
               log, cur, reported>>
vars == <<ingestVars, frameVars>>

----------------------------------------------------------------------------
(* Bounds of the model.                                                    *)

\* at most this many fetch cycles in one behaviour
MaxCycles == 2

\* at most this many video files in input_folder
MaxVideos == 3

\* at most this many frames in a video
MaxFrames == 3

----------------------------------------------------------------------------
(* Text: a str is the tuple of its characters.                             *)

Digits == <<"0", "1", "2", "3", "4", "5", "6", "7", "8", "9">>

Digit(n) == Digits[n + 1]

IsDigit(c) == \E n \in 0..9 : Digits[n + 1] = c

DigitVal(c) == CHOOSE n \in 0..9 : Digits[n + 1] = c

\* "%02d"
Pad2(n) == <<Digit((n \div 10) % 10), Digit(n % 10)>>

\* "%04d"
Pad4(n) == <<Digit((n \div 1000) % 10), Digit((n \div 100) % 10),
             Digit((n \div 10) % 10), Digit(n % 10)>>

\* the number written in positions a..b of s (all of them digits)
Num(s, a, b) ==
    LET RECURSIVE Acc(_, _)
        Acc(i, v) == IF i > b THEN v ELSE Acc(i + 1, 10 * v + DigitVal(s[i]))
    IN Acc(a, 0)

AllDigits(s, a, b) == \A i \in a..b : IsDigit(s[i])

----------------------------------------------------------------------------
(* datetime: a naive datetime is the record of its fields.                 *)

Dt(y, mo, d, h, mi, s, us) ==
    [year |-> y, month |-> mo, day |-> d, hour |-> h, minute |-> mi,
     second |-> s, microsecond |-> us]

IsLeap(y) == (y % 4 = 0 /\ y % 100 # 0) \/ y % 400 = 0

DaysInMonth(y, mo) ==
    IF mo = 2 THEN (IF IsLeap(y) THEN 29 ELSE 28)
    ELSE IF mo \in {4, 6, 9, 11} THEN 30 ELSE 31

DtKey(t) == <<t.year, t.month, t.day, t.hour, t.minute, t.second, t.microsecond>>

\* datetime.__lt__ : lexicographic on the fields
DtLess(a, b) ==
    LET RECURSIVE Lt(_)
        Lt(i) == IF i > 7 THEN FALSE
                 ELSE IF DtKey(a)[i] < DtKey(b)[i] THEN TRUE
                 ELSE IF DtKey(a)[i] > DtKey(b)[i] THEN FALSE
                 ELSE Lt(i + 1)
    IN Lt(1)

DtLeq(a, b) == a = b \/ DtLess(a, b)

\* dt - timedelta(days=1): the same time of day on the previous calendar day
MinusOneDay(t) ==
    IF t.day > 1 THEN [t EXCEPT !.day = t.day - 1]
    ELSE IF t.month > 1
         THEN [t EXCEPT !.month = t.month - 1,
                        !.day = DaysInMonth(t.year, t.month - 1)]
         ELSE [t EXCEPT !.year = t.year - 1, !.month = 12, !.day = 31]

\* the wall-clock instants of the model, chosen for the spec's scenario
\* (2025-11-21 10:00), single-digit fields, a 59.999999 s instant, the day
\* after a leap day and the first and last day of a year
SampleTimes ==
    { Dt(2024, 3, 1, 0, 5, 59, 999999),
      Dt(2025, 1, 1, 8, 30, 30, 500000),
      Dt(2025, 11, 21, 10, 0, 0, 0),
      Dt(2025, 12, 31, 23, 59, 59, 999999) }

----------------------------------------------------------------------------
(* Python values, tagged by type.                                          *)

PyNone == [t |-> "None"]
PyStr(s) == [t |-> "str", s |-> s]
PyInt(n) == [t |-> "int", n |-> n]
PyDatetime(d) == [t |-> "datetime", d |-> d]

\* how a call ended: raised is "none" or the exception's class
Returned(v) == [raised |-> "none", ret |-> v]
Raised(e) == [raised |-> e, ret |-> PyNone]

\* strftime that rounds the seconds to the nearest minute
strftime_since_rounding(dt) ==
    LET up == IF dt.second >= 30 THEN 1 ELSE 0 IN
    Pad4(dt.year) \o <<"/">> \o Pad2(dt.month) \o <<"/">> \o Pad2(dt.day)
    \o <<" ">> \o Pad2(dt.hour) \o <<":">> \o Pad2((dt.minute + up) % 60)

\* dt.strftime("%Y/%m/%d %H:%M")
strftime_since(dt) ==
    Pad4(dt.year) \o <<"/">> \o Pad2(dt.month) \o <<"/">> \o Pad2(dt.day)
    \o <<" ">> \o Pad2(dt.hour) \o <<":">> \o Pad2(dt.minute)

\* dt.isoformat(timespec="seconds")
isoformat_seconds(dt) ==
    Pad4(dt.year) \o <<"-">> \o Pad2(dt.month) \o <<"-">> \o Pad2(dt.day)
    \o <<"T">> \o Pad2(dt.hour) \o <<":">> \o Pad2(dt.minute)
    \o <<":">> \o Pad2(dt.second)

\* datetime.fromisoformat(v), for v a str of the form YYYY-MM-DD?HH:MM:SS or
\* a str of no ISO form at all (ValueError), or no str (TypeError)
fromisoformat(v) ==
    IF v.t # "str" THEN Raised("TypeError")
    ELSE LET s == v.s IN
      IF /\ Len(s) = 19
         /\ s[5] = "-" /\ s[8] = "-" /\ s[14] = ":" /\ s[17] = ":"
         /\ AllDigits(s, 1, 4) /\ AllDigits(s, 6, 7) /\ AllDigits(s, 9, 10)
         /\ AllDigits(s, 12, 13) /\ AllDigits(s, 15, 16) /\ AllDigits(s, 18, 19)
      THEN LET y == Num(s, 1, 4)
               mo == Num(s, 6, 7)
               d == Num(s, 9, 10)
               h == Num(s, 12, 13)
               mi == Num(s, 15, 16)
               sec == Num(s, 18, 19)
           IN IF /\ y >= 1 /\ mo \in 1..12
                 /\ d >= 1 /\ d <= DaysInMonth(y, mo)
                 /\ h <= 23 /\ mi <= 59 /\ sec <= 59
              THEN Returned(PyDatetime(Dt(y, mo, d, h, mi, sec, 0)))
              ELSE Raised("ValueError")
      ELSE Raised("ValueError")

----------------------------------------------------------------------------
(* format_since                                                            *)

format_since(dt) ==
    IF dt = PyNone THEN PyNone ELSE PyStr(strftime_since(dt.d))

----------------------------------------------------------------------------
(* JSON: json.dump and json.load between a dict and the stored document.   *)

JNull == [j |-> "null"]
JString(s) == [j |-> "string", s |-> s]
JNumber(n) == [j |-> "number", n |-> n]

\* json's encoding of a value: None -> null, str -> string, int -> number
ToJson(v) ==
    IF v.t = "None" THEN JNull
    ELSE IF v.t = "str" THEN JString(v.s)
    ELSE JNumber(v.n)

\* json's decoding of a value: null -> None, string -> str, number -> int
FromJson(x) ==
    IF x.j = "null" THEN PyNone
    ELSE IF x.j = "string" THEN PyStr(x.s)
    ELSE PyInt(x.n)

\* json.dump(state, f, indent=2): the object with the dict's keys
json_dump(state) == [k \in DOMAIN state |-> ToJson(state[k])]

\* json.load(f) of a stored object
json_load(doc) == [k \in DOMAIN doc |-> FromJson(doc[k])]

\* what STATE_PATH holds: no file, a JSON object, or text that is no JSON
\* (an empty file, a truncated document)
Absent == [f |-> "absent"]
JsonFile(doc) == [f |-> "json", doc |-> doc]
Garbage(g) == [f |-> "garbage", g |-> g]

\* {"last_downloaded_at": None}
DefaultState == [last_downloaded_at |-> PyNone]

\* state.get(k)
dict_get(state, k) == IF k \in DOMAIN state THEN state[k] ELSE PyNone

\* state[k] = v
dict_set(state, k, v) ==
    [x \in DOMAIN state \cup {k} |-> IF x = k THEN v ELSE state[x]]

----------------------------------------------------------------------------
(* The State Store of ingest.py, as functions of the stored file.          *)

\* load_state(): the dict read, or the exception json.load raises
load_state(file) ==
    IF file.f # "absent"
    THEN (IF file.f = "json" THEN Returned(json_load(file.doc))
          ELSE Raised("JSONDecodeError"))
    ELSE Returned(DefaultState)

\* save_state(state): the file written
save_state(state) == JsonFile(json_dump(state))

\* get_last_downloaded_at()
get_last_downloaded_at(file) ==
    LET st == load_state(file) IN
    IF st.raised # "none" THEN st
    ELSE LET ts == dict_get(st.ret, "last_downloaded_at") IN
         IF ts = PyNone THEN Returned(PyNone)
         ELSE LET p == fromisoformat(ts) IN
              IF p.raised = "ValueError" THEN Returned(PyNone) ELSE p

\* set_last_downloaded_at that writes a fresh dict instead of the one loaded
set_last_downloaded_at_fresh(file, dt) ==
    LET st == load_state(file) IN
    IF st.raised # "none" THEN [raised |-> st.raised, file |-> file]
    ELSE [raised |-> "none",
          file |-> JsonFile(json_dump(
                     [last_downloaded_at |-> PyStr(isoformat_seconds(dt))]))]

\* set_last_downloaded_at(dt): how the call ends and the file it leaves
set_last_downloaded_at(file, dt) ==
    LET st == load_state(file) IN
    IF st.raised # "none" THEN [raised |-> st.raised, file |-> file]
    ELSE [raised |-> "none",
          file |-> save_state(dict_set(st.ret, "last_downloaded_at",
                                       PyStr(isoformat_seconds(dt))))]

----------------------------------------------------------------------------
(* The inputs of the model.                                                *)

\* strings that are no ISO-8601 timestamp: no timestamp at all, the empty
\* string, month 13, February 30
BadStrings ==
    { <<"n", "o", "t", "-", "a", "-", "t", "s">>,
      << >>,
      isoformat_seconds(Dt(2025, 13, 16, 23, 59, 59, 0)),
      isoformat_seconds(Dt(2025, 2, 30, 0, 0, 0, 0)) }

\* values of the last_downloaded_at key
CursorValues ==
    {PyNone, PyInt(12345)}
    \cup {PyStr(isoformat_seconds(t)) : t \in SampleTimes}
    \cup {PyStr(s) : s \in BadStrings}

CameraName == PyStr(<<"C", "1", "5">>)

\* the states save_state is called with: with and without the cursor key,
\* with and without another key
States ==
    {[last_downloaded_at |-> c] : c \in CursorValues}
    \cup {[last_downloaded_at |-> c, camera |-> CameraName] : c \in CursorValues}
    \cup {[camera |-> CameraName]}

\* the files STATE_PATH may hold when the program starts
InitialFiles ==
    {Absent, Garbage("empty"), Garbage("truncated")}
    \cup {save_state(s) : s \in States}

----------------------------------------------------------------------------
(* The functions of ingest.py as actions. Each records in last the call,   *)
(* the stored file before it and how it ended.                             *)

Call(op, arg, res) ==
    [op |-> op, arg |-> arg, pre |-> stateFile, raised |-> res.raised,
     ret |-> res.ret]

\* the clock moves on to a later instant
Tick ==
    /\ \E t \in SampleTimes : DtLess(now, t) /\ now' = t
    /\ UNCHANGED <<stateFile, metaDir, authFile, rawDir, clients, requests, last>>

\* the datetimes format_since is called with: the instants of the clock and
\* the first and last values of each field
FormatInputs ==
    SampleTimes
    \cup {Dt(y, mo, d, h, mi, sec, us) :
            y \in {1999, 2025}, mo \in {1, 12}, d \in {2, 31}, h \in {0, 23},
            mi \in {5, 59}, sec \in {0, 59}, us \in {0, 999999}}

FormatSince ==
    /\ \E dt \in {PyNone} \cup {PyDatetime(t) : t \in FormatInputs} :
          last' = Call("format_since", dt, Returned(format_since(dt)))
    /\ UNCHANGED <<now, stateFile, metaDir, authFile, rawDir, clients, requests>>

LoadState ==
    /\ last' = Call("load_state", PyNone, load_state(stateFile))
    /\ UNCHANGED <<now, stateFile, metaDir, authFile, rawDir, clients, requests>>

SaveState ==
    /\ \E state \in States :
          /\ stateFile' = save_state(state)
          /\ last' = Call("save_state", state, Returned(PyNone))
    /\ metaDir' = TRUE
    /\ UNCHANGED <<now, authFile, rawDir, clients, requests>>

GetLastDownloadedAt ==
    /\ last' = Call("get_last_downloaded_at", PyNone,
                    get_last_downloaded_at(stateFile))
    /\ UNCHANGED <<now, stateFile, metaDir, authFile, rawDir, clients, requests>>

SetLastDownloadedAt ==
    /\ \E t \in SampleTimes :
          LET r == set_last_downloaded_at(stateFile, t) IN
          /\ stateFile' = r.file
          /\ metaDir' = (metaDir \/ r.raised = "none")
          /\ last' = Call("set_last_downloaded_at", PyDatetime(t),
                          [raised |-> r.raised, ret |-> PyNone])
    /\ UNCHANGED <<now, authFile, rawDir, clients, requests>>

----------------------------------------------------------------------------
(* The fetch cycle.                                                        *)

\* yesterday.replace(hour=9, minute=0, second=0, microsecond=0)
yesterday_9am(t) ==
    [MinusOneDay(t) EXCEPT !.hour = 9, !.minute = 0, !.second = 0,
                           !.microsecond = 0]

\* what the camera service does in one cycle: blink.start() raises,
\* blink.download_videos raises, or both return
ServiceOutcomes == {"ok", "start_raises", "download_raises"}

\* since_str: format_since(yesterday_9am), with now the clock's reading
since_str(t) == format_since(PyDatetime(yesterday_9am(t)))

\* the download_videos call of a cycle
DownloadRequest(since) ==
    [since |-> since, camera |-> <<"sort_C15">>, delay |-> 2]

\* a cycle that advances the cursor however the service call ended
CursorAfterCycleAlways(file, svc, t) ==
    LET st == load_state(file) IN
    IF st.raised # "none" THEN file
    ELSE JsonFile(json_dump(
            [x \in DOMAIN st.ret \cup {"last_downloaded_at"} |->
                IF x = "last_downloaded_at" THEN PyStr(isoformat_seconds(t))
                ELSE st.ret[x]]))

\* the stored file after a cycle in which the service did svc and which
\* ended at instant t: ingest_new_clips calls neither save_state nor
\* set_last_downloaded_at
CursorAfterCycle(file, svc, t) == file

\* the exception that leaves ingest_new_clips when exc is raised inside its
\* "async with ClientSession()" block: no try/except stands in its way
Propagated(exc) == exc

\* how a cycle is recorded: what the service did, the clock at its start and
\* end, the since string computed, the exception that reached the caller,
\* and the clients built, requests made and directory before it
Cycle(svc, since, exc, t) ==
    [op |-> "ingest_new_clips", arg |-> PyNone, pre |-> stateFile,
     raised |-> exc, ret |-> PyNone, svc |-> svc, since |-> since,
     started |-> now, at |-> t,
     preClients |-> clients, preRequests |-> Len(requests),
     preRawDir |-> rawDir]

\* a cycle that makes RAW_CLIPS_DIR before it asks for the client
IngestAuthMissingAfterMkdir ==
    /\ ~authFile
    /\ rawDir' = TRUE
    /\ stateFile' = CursorAfterCycle(stateFile, "auth_missing", now)
    /\ last' = Cycle("auth_missing", since_str(now),
                     Propagated("FileNotFoundError"), now)
    /\ UNCHANGED <<now, metaDir, authFile, clients, requests>>

\* get_blink_client raises FileNotFoundError: nothing else happens
IngestAuthMissing ==
    /\ ~authFile
    /\ stateFile' = CursorAfterCycle(stateFile, "auth_missing", now)
    /\ last' = Cycle("auth_missing", since_str(now),
                     Propagated("FileNotFoundError"), now)
    /\ UNCHANGED <<now, metaDir, authFile, rawDir, clients, requests>>

\* the auth file is there: the client is built and started, the directory
\* made, the download requested; the service answers or raises
IngestWithClient ==
    /\ authFile
    /\ clients < MaxCycles
    /\ \E svc \in ServiceOutcomes, t \in SampleTimes :
          LET since == since_str(now) IN
          /\ DtLeq(now, t)
          /\ now' = t
          /\ clients' = clients + 1
          /\ rawDir' = (rawDir \/ svc # "start_raises")
          /\ requests' = IF svc = "start_raises" THEN requests
                         ELSE Append(requests, DownloadRequest(since))
          /\ stateFile' = CursorAfterCycle(stateFile, svc, t)
          /\ last' = Cycle(svc, since,
                           IF svc = "ok" THEN "none"
                           ELSE Propagated("VendorError"), t)
    /\ UNCHANGED <<metaDir, authFile>>

ingest_new_clips == IngestAuthMissing \/ IngestWithClient

----------------------------------------------------------------------------
(* The ingest module.                                                      *)

NoCall == [op |-> "none", arg |-> PyNone, pre |-> Absent, raised |-> "none",
           ret |-> PyNone]

FramesIdle ==
    /\ folder = {}
    /\ pc = "idle"
    /\ interval_seconds = 1
    /\ video_files = << >>
    /\ vi = 1
    /\ counter = 1
    /\ written = << >>
    /\ log = << >>
    /\ cur = [opens |-> FALSE, fps10 |-> 0, width |-> 0, height |-> 0,
              nframes |-> 0]
    /\ reported = -1

InitIngest ==
    /\ now \in SampleTimes
    /\ stateFile \in InitialFiles
    /\ metaDir = (stateFile # Absent)
    /\ authFile \in BOOLEAN
    /\ rawDir \in BOOLEAN
    /\ clients = 0
    /\ requests = << >>
    /\ last = NoCall

\* the fetch stage: python ingest.py, run again and again as time passes
Init == InitIngest /\ FramesIdle

Next ==
    \/ Tick /\ UNCHANGED frameVars
    \/ ingest_new_clips /\ UNCHANGED frameVars

Spec == Init /\ [][Next]_vars

\* the State Store and format_since, called as the tests of test_ingest.py
\* call them
InitStore ==
    /\ now = CHOOSE t \in SampleTimes : \A u \in SampleTimes : DtLeq(t, u)
    /\ stateFile \in InitialFiles
    /\ metaDir = (stateFile # Absent)
    /\ authFile = TRUE
    /\ rawDir = FALSE
    /\ clients = 0
    /\ requests = << >>
    /\ last = NoCall
    /\ FramesIdle

NextStore ==
    \/ FormatSince /\ UNCHANGED frameVars
    \/ LoadState /\ UNCHANGED frameVars
    \/ SaveState /\ UNCHANGED frameVars
    \/ GetLastDownloadedAt /\ UNCHANGED frameVars
    \/ SetLastDownloadedAt /\ UNCHANGED frameVars

SpecStore == InitStore /\ [][NextStore]_vars

----------------------------------------------------------------------------
(* extract_frames.py: one run of extract_frames_from_folder.               *)

\* the defaults of expected_width and expected_height
ExpectedWidth == 1920
ExpectedHeight == 1080

\* the values of the interval_seconds argument
Intervals == {1, 2}

\* a file of input_folder: name is the rank of its file name in Python's
\* string order, ext its extension as spelled
File(n, e) == [name |-> n, ext |-> e]

\* f.lower()
Lower(e) == IF e = ".MOV" THEN ".mov" ELSE e

\* f.lower().endswith((".mp4", ".mov"))
IsVideo(f) == Lower(f.ext) \in {".mp4", ".mov"}

\* sorted(...) of a set of files: ascending by name
RECURSIVE SortedFiles(_)
SortedFiles(S) ==
    IF S = {} THEN << >>
    ELSE LET m == CHOOSE x \in S : \A y \in S : x.name <= y.name
         IN <<m>> \o SortedFiles(S \ {m})

\* the folders of the model: a text file, and the first n of the video
\* files 1..MaxVideos, their extensions spelled .mp4 and .MOV in turn
Folders ==
    { {File(0, ".txt")}
        \cup {File(i, IF i % 2 = 1 THEN ".mp4" ELSE ".MOV") : i \in 1..n}
      : n \in 0..MaxVideos }

\* what cv2.VideoCapture finds in a file: whether it opens, CAP_PROP_FPS in
\* tenths of a frame per second, the frame size, and how many frames
\* video.read() returns
Video(o, f, w, h, n) ==
    [opens |-> o, fps10 |-> f, width |-> w, height |-> h, nframes |-> n]

\* frame rates 0, 0.5, 1.5 and 2.0
FpsTenths == {0, 5, 15, 20}

VideoProps ==
    {Video(FALSE, 0, 0, 0, 0)}
    \cup {Video(TRUE, f, ExpectedWidth, ExpectedHeight, n) :
            f \in FpsTenths, n \in 0..MaxFrames}
    \cup {Video(TRUE, f, wh[1], wh[2], 1) :
            f \in {0, 15},
            wh \in {<<1280, ExpectedHeight>>, <<ExpectedWidth, 720>>,
                    <<1280, 720>>}}

\* a check that skips a video only when both dimensions differ
resolution_mismatch_both(width, height) ==
    width # ExpectedWidth /\ height # ExpectedHeight

\* width != expected_width or height != expected_height
resolution_mismatch(width, height) ==
    width # ExpectedWidth \/ height # ExpectedHeight

\* int(fps * interval_seconds)
frame_interval(fps10, interval) == (fps10 * interval) \div 10

\* the while loop over the frames of one video, from frame_idx on: the
\* counter and the frames written when it ends, or ZeroDivisionError from
\* frame_idx % frame_interval
RECURSIVE read_loop(_, _, _, _, _, _)
read_loop(name, nframes, stride, frame_idx, cnt, out) ==
    IF frame_idx >= nframes
    THEN [raised |-> "none", counter |-> cnt, frames |-> out]
    ELSE IF stride = 0
    THEN [raised |-> "ZeroDivisionError", counter |-> cnt, frames |-> out]
    ELSE IF frame_idx % stride = 0
    THEN read_loop(name, nframes, stride, frame_idx + 1, cnt + 1,
                   Append(out, [seq |-> cnt, video |-> name,
                                idx |-> frame_idx]))
    ELSE read_loop(name, nframes, stride, frame_idx + 1, cnt, out)

\* the frames of one video numbered from 1, whatever the run's counter is
extract_video_renumbered(name, v, interval, cnt) ==
    read_loop(name, v.nframes, frame_interval(v.fps10, interval), 0, 1, << >>)

\* lines 105-121: the frames of one video that passed the checks, numbered
\* from the run's counter
extract_video(name, v, interval, cnt) ==
    read_loop(name, v.nframes, frame_interval(v.fps10, interval), 0, cnt, << >>)

\* what the run prints about a video: how it was dealt with, the counter
\* before and after it, and its saved_count
LogEntry(name, status, before, after) ==
    [video |-> name, status |-> status, before |-> before, after |-> after,
     saved |-> after - before]

\* lines 64-75: list, filter and sort the folder; return when it holds no
\* video, else set the counter to 1
Start ==
    /\ pc = "idle"
    /\ video_files' = SortedFiles({f \in folder : IsVideo(f)})
    /\ pc' = IF video_files' = << >> THEN "returned" ELSE "loop"
    /\ counter' = 1
    /\ vi' = 1
    /\ UNCHANGED <<folder, interval_seconds, written, log, reported, cur>>

\* a for loop that stops at a video that does not open
ProcessVideoStopOnUnopenable ==
    /\ pc = "loop"
    /\ vi <= Len(video_files)
    /\ \E v \in VideoProps :
          LET name == video_files[vi].name IN
          /\ cur' = v
          /\ IF ~v.opens
             THEN /\ log' = Append(log, LogEntry(name, "unopenable", counter, counter))
                  /\ vi' = vi
                  /\ pc' = "aborted"
                  /\ UNCHANGED <<counter, written>>
             ELSE IF resolution_mismatch(v.width, v.height)
             THEN /\ log' = Append(log, LogEntry(name, "mismatch", counter, counter))
                  /\ vi' = vi + 1
                  /\ UNCHANGED <<pc, counter, written>>
             ELSE LET r == extract_video(name, v, interval_seconds, counter) IN
                  /\ written' = written \o r.frames
                  /\ counter' = r.counter
                  /\ IF r.raised = "none"
                     THEN /\ log' = Append(log, LogEntry(name, "extracted",
                                                         counter, r.counter))
                          /\ vi' = vi + 1
                          /\ pc' = pc
                     ELSE /\ log' = Append(log, LogEntry(name, r.raised,
                                                         counter, r.counter))
                          /\ vi' = vi
                          /\ pc' = "aborted"
    /\ UNCHANGED <<folder, interval_seconds, video_files, reported>>

\* lines 77-124: one pass of the for loop, on a video that turns out as v
ProcessVideo ==
    /\ pc = "loop"
    /\ vi <= Len(video_files)
    /\ \E v \in VideoProps :
          LET name == video_files[vi].name IN
          /\ cur' = v
          /\ IF ~v.opens
             THEN /\ log' = Append(log, LogEntry(name, "unopenable", counter, counter))
                  /\ vi' = vi + 1
                  /\ UNCHANGED <<pc, counter, written>>
             ELSE IF resolution_mismatch(v.width, v.height)
             THEN /\ log' = Append(log, LogEntry(name, "mismatch", counter, counter))
                  /\ vi' = vi + 1
                  /\ UNCHANGED <<pc, counter, written>>
             ELSE LET r == extract_video(name, v, interval_seconds, counter) IN
                  /\ written' = written \o r.frames
                  /\ counter' = r.counter
                  /\ IF r.raised = "none"
                     THEN /\ log' = Append(log, LogEntry(name, "extracted",
                                                         counter, r.counter))
                          /\ vi' = vi + 1
                          /\ pc' = pc
                     ELSE /\ log' = Append(log, LogEntry(name, r.raised,
                                                         counter, r.counter))
                          /\ vi' = vi
                          /\ pc' = "aborted"
    /\ UNCHANGED <<folder, interval_seconds, video_files, reported>>

\* lines 126-127: the loop is over, the total is printed
Finish ==
    /\ pc = "loop"
    /\ vi > Len(video_files)
    /\ reported' = counter - 1
    /\ pc' = "done"
    /\ UNCHANGED <<folder, interval_seconds, video_files, vi, counter, written,
                   log, cur>>

IngestIdle ==
    /\ now = CHOOSE t \in SampleTimes : \A u \in SampleTimes : DtLeq(t, u)
    /\ stateFile = Absent
    /\ metaDir = FALSE
    /\ authFile = TRUE
    /\ rawDir = TRUE
    /\ clients = 0
    /\ requests = << >>
    /\ last = NoCall

InitFrames ==
    /\ folder \in Folders
    /\ interval_seconds \in Intervals
    /\ pc = "idle"
    /\ video_files = << >>
    /\ vi = 1
    /\ counter = 1
    /\ written = << >>
    /\ log = << >>
    /\ reported = -1
    /\ cur = Video(FALSE, 0, 0, 0, 0)
    /\ IngestIdle

NextFrames ==
    \/ Start /\ UNCHANGED ingestVars
    \/ ProcessVideo /\ UNCHANGED ingestVars
    \/ Finish /\ UNCHANGED ingestVars

SpecFrames == InitFrames /\ [][NextFrames]_vars

----------------------------------------------------------------------------
(* Vocabulary of the claims.                                               *)

\* t truncated to whole seconds
TruncSeconds(t) == [t EXCEPT !.microsecond = 0]

\* the timestamps isoformat writes for the instants of the model
IsoTimestamps == {PyStr(isoformat_seconds(t)) : t \in SampleTimes}

\* file is a stored object with a last_downloaded_at key
HoldsCursorValue(file) ==
    file.f = "json" /\ "last_downloaded_at" \in DOMAIN file.doc

\* the value stored under last_downloaded_at
CursorValue(file) == FromJson(file.doc["last_downloaded_at"])

\* the cursor the State Store holds is present: an ISO timestamp
CursorPresent(file) == HoldsCursorValue(file) /\ CursorValue(file) \in IsoTimestamps

\* the instant a present cursor stands for
CursorInstant(file) ==
    CHOOSE t \in SampleTimes :
        CursorValue(file) = PyStr(isoformat_seconds(t))

IsCycle == last.op = "ingest_new_clips"

\* the cycle made its download_videos call
Requested == IsCycle /\ Len(requests) > last.preRequests

----------------------------------------------------------------------------
(* C1: a fetch cycle in which the camera-service call (get_blink_client or *)
(* blink.download_videos) raises leaves the stored cursor as it was before *)
(* the cycle, and the exception reaches the caller of ingest_new_clips.    *)
C1_FailedCycleKeepsCursor ==
    (IsCycle /\ last.svc # "ok") =>
        /\ stateFile = last.pre
        /\ last.raised = (IF last.svc = "auth_missing" THEN "FileNotFoundError"
                          ELSE "VendorError")

\* a cycle whose download raised, started with a cursor present
C1_Witness ==
    /\ IsCycle /\ last.svc = "download_raises" /\ Requested
    /\ CursorPresent(last.pre)

(* C2: after a fetch cycle in which blink.download_videos returned, the    *)
(* stored cursor is the completion time of that fetch (to the second), so  *)
(* it is not absent.                                                       *)
C2_SuccessAdvancesCursor ==
    (IsCycle /\ last.svc = "ok") =>
        /\ CursorPresent(stateFile)
        /\ CursorInstant(stateFile) = TruncSeconds(last.at)

(* C3: a fetch cycle started with a cursor c present passes                *)
(* format_since(c) as since to blink.download_videos; the fallback         *)
(* "yesterday at 09:00" is passed only when the cursor is absent.          *)
C3_SinceFromCursor ==
    (Requested /\ CursorPresent(last.pre)) =>
        /\ requests[Len(requests)].since
              = format_since(PyDatetime(CursorInstant(last.pre)))
        /\ requests[Len(requests)].since
              # format_since(PyDatetime(yesterday_9am(last.started)))

(* C4: format_since(None) is None, not an empty string; for a datetime t  *)
(* format_since(t) is the 16 characters YYYY/MM/DD HH:MM whose zero-padded *)
(* numbers are t's year, month, day, hour and minute: the seconds and      *)
(* microseconds are dropped and never carried into the minute.             *)
C4_FormatSince ==
    last.op = "format_since" =>
        IF last.arg = PyNone
        THEN last.ret = PyNone /\ last.ret # PyStr(<< >>)
        ELSE /\ last.ret.t = "str"
             /\ LET s == last.ret.s
                    t == last.arg.d
                IN /\ Len(s) = 16
                   /\ s[5] = "/" /\ s[8] = "/" /\ s[11] = " " /\ s[14] = ":"
                   /\ AllDigits(s, 1, 4) /\ Num(s, 1, 4) = t.year
                   /\ AllDigits(s, 6, 7) /\ Num(s, 6, 7) = t.month
                   /\ AllDigits(s, 9, 10) /\ Num(s, 9, 10) = t.day
                   /\ AllDigits(s, 12, 13) /\ Num(s, 12, 13) = t.hour
                   /\ AllDigits(s, 15, 16) /\ Num(s, 15, 16) = t.minute

\* format_since of an instant 59.999999 s into a single-digit minute
C4_Witness ==
    /\ last.op = "format_since" /\ last.arg # PyNone
    /\ last.arg.d.second = 59 /\ last.arg.d.microsecond = 999999
    /\ last.arg.d.minute < 10 /\ last.arg.d.month < 10
    /\ last.ret.t = "str"

(* C5: get_last_downloaded_at returns None, without raising and without    *)
(* changing the stored state, when the stored last_downloaded_at is no     *)
(* parseable ISO-8601 timestamp; it returns that datetime when the value   *)
(* is a valid ISO timestamp, and None when the value is null.              *)
C5_GetCursorNeverRaises ==
    (last.op = "get_last_downloaded_at" /\ HoldsCursorValue(last.pre)) =>
        /\ stateFile = last.pre
        /\ last.raised = "none"
        /\ IF CursorPresent(last.pre)
           THEN last.ret = PyDatetime(TruncSeconds(CursorInstant(last.pre)))
           ELSE last.ret = PyNone

(* C6: load_state returns the default state {last_downloaded_at: None},    *)
(* and raises nothing, both when there is no state file and when the file  *)
(* is there but holds no readable JSON (empty, truncated).                 *)
C6_LoadStateDefault ==
    (last.op = "load_state" /\ last.pre.f \in {"absent", "garbage"}) =>
        /\ last.raised = "none"
        /\ last.ret = DefaultState

(* C7: the State Store round-trips: load_state() right after              *)
(* save_state(s) returns s; saving what load_state() returns leaves what   *)
(* is stored as it was, and doing so again changes nothing;                *)
(* get_last_downloaded_at() right after set_last_downloaded_at(t) returns  *)
(* t truncated to whole seconds, and set_last_downloaded_at keeps every    *)
(* other key of the stored state.                                          *)
C7_RoundTrip ==
    /\ last.op = "save_state" => load_state(stateFile) = Returned(last.arg)
    /\ LET r == load_state(stateFile) IN
       r.raised = "none" =>
           /\ load_state(save_state(r.ret)) = r
           /\ stateFile.f = "json" => save_state(r.ret) = stateFile
           /\ save_state(load_state(save_state(r.ret)).ret) = save_state(r.ret)
    /\ (last.op = "set_last_downloaded_at" /\ last.pre.f # "garbage") =>
           /\ last.raised = "none"
           /\ get_last_downloaded_at(stateFile)
                 = Returned(PyDatetime(TruncSeconds(last.arg.d)))
           /\ LET before == load_state(last.pre).ret
                  after == load_state(stateFile).ret
              IN \A k \in DOMAIN before \ {"last_downloaded_at"} :
                    k \in DOMAIN after /\ after[k] = before[k]

\* set_last_downloaded_at of an instant with microseconds, on a stored
\* state that has another key and another cursor
C7_Witness ==
    /\ last.op = "set_last_downloaded_at" /\ last.raised = "none"
    /\ last.arg.d.microsecond # 0
    /\ last.pre.f = "json" /\ "camera" \in DOMAIN last.pre.doc
    /\ stateFile # last.pre

----------------------------------------------------------------------------
(* Vocabulary of the claims about the frame extractor.                     *)

\* the sequence numbers of the frames written for the video named n
SeqsOf(n) == {written[i].seq : i \in {j \in 1..Len(written) : written[j].video = n}}

\* the run has processed a video, and cur is what it found in it
Processed == Len(log) > 0

LastEntry == log[Len(log)]

\* the stride the last video's frame rate gives
LastStride == frame_interval(cur.fps10, interval_seconds)

(* C8: in one run the frame counter starts at 1, is shared by all videos   *)
(* and grows by 1 per written frame: the k-th frame written has number k,  *)
(* numbers rise in ascending file-name order of the videos and, within a   *)
(* video, in frame order; two videos that yield 3 frames each get 1,2,3    *)
(* and 4,5,6; the reported total is the number of frames written.          *)
C8_SharedCounter ==
    /\ pc # "idle" => counter = Len(written) + 1
    /\ \A i \in 1..Len(written) : written[i].seq = i
    /\ \A i, j \in 1..Len(written) :
          i < j => \/ written[i].video < written[j].video
                   \/ /\ written[i].video = written[j].video
                      /\ written[i].idx < written[j].idx
    /\ \A k \in 1..Len(log) :
          /\ log[k].before = (IF k = 1 THEN 1 ELSE log[k - 1].after)
          /\ SeqsOf(log[k].video) = log[k].before .. (log[k].after - 1)
    /\ \A a, b \in 1..Len(log) :
          (a < b /\ log[a].saved = 3 /\ log[b].saved = 3
                 /\ \A k \in 1..(b - 1) : k # a => log[k].saved = 0)
          => SeqsOf(log[a].video) = {1, 2, 3} /\ SeqsOf(log[b].video) = {4, 5, 6}
    /\ pc = "done" => reported = Len(written)

\* a finished run in which the first two videos yielded 3 frames each
C8_Witness ==
    /\ pc = "done" /\ Len(log) >= 2
    /\ log[1].saved = 3 /\ log[2].saved = 3
    /\ log[1].video < log[2].video
    /\ reported >= 6

(* C9: a video whose width or height differs from the expected one gets no *)
(* frame written, leaves the frame counter as it was, and the run goes on  *)
(* with the next video.                                                    *)
C9_MismatchSkipped ==
    /\ (Processed /\ cur.opens
          /\ (cur.width # ExpectedWidth \/ cur.height # ExpectedHeight))
       => /\ LastEntry.status = "mismatch"
          /\ pc \in {"loop", "done"}
          /\ vi = Len(log) + 1
    /\ \A k \in 1..Len(log) :
          log[k].status = "mismatch" =>
             /\ SeqsOf(log[k].video) = {}
             /\ log[k].after = log[k].before
             /\ (k = Len(log) => counter = log[k].before)

\* a video was skipped for its resolution after a video that had frames
\* written, and the video after it had frames written
C9_Witness ==
    /\ Len(log) >= 3
    /\ log[1].saved > 0
    /\ log[2].status = "mismatch"
    /\ log[3].saved > 0
    /\ cur.opens

(* C10: a video of the expected resolution whose stride is zero (frame     *)
(* rate 0, or below 1/interval) is skipped: no frame of it is written, the *)
(* run does not abort and goes on with the next video.                     *)
C10_ZeroStrideSkipped ==
    (Processed /\ cur.opens /\ ~resolution_mismatch(cur.width, cur.height)
       /\ LastStride = 0)
    => /\ SeqsOf(LastEntry.video) = {}
       /\ pc \in {"loop", "done"}
       /\ vi = Len(log) + 1

(* C11: a video file that cannot be opened is skipped: no frame of it is   *)
(* written, the frame counter stays as it was, and the run goes on with    *)
(* the videos after it in file-name order, numbering their frames from the *)
(* counter value before the unopenable file.                               *)
C11_UnopenableSkipped ==
    /\ (Processed /\ ~cur.opens)
       => /\ LastEntry.status = "unopenable"
          /\ pc \in {"loop", "done"}
          /\ vi = Len(log) + 1
          /\ counter = LastEntry.before
    /\ \A k \in 1..Len(log) :
          log[k].status = "unopenable" =>
             /\ SeqsOf(log[k].video) = {}
             /\ log[k].after = log[k].before
             /\ log[k].video = video_files[k].name
             /\ k < Len(log) =>
                   /\ log[k + 1].video = video_files[k + 1].name
                   /\ log[k + 1].before = log[k].before
                   /\ SeqsOf(log[k + 1].video)
                         = log[k].before .. (log[k + 1].after - 1)
             /\ pc = "done" => Len(log) = Len(video_files)

\* a finished run in which the second of three videos did not open, after
\* a video that had frames written, and the third had frames written
C11_Witness ==
    /\ pc = "done" /\ Len(log) = 3
    /\ log[1].saved > 0
    /\ log[2].status = "unopenable"
    /\ log[3].saved > 0
    /\ written[Len(written)].video = log[3].video
    /\ reported = log[1].saved + log[3].saved

(* C12: when the auth file does not exist, get_blink_client raises         *)
(* FileNotFoundError before a vendor client is created, and the fetch      *)
(* cycle ends with that error having made no download request, created no  *)
(* raw-clip directory and changed no stored cursor.                        *)
C12_AuthMissingIsFatal ==
    (IsCycle /\ ~authFile) =>
        /\ last.raised = "FileNotFoundError"
        /\ clients = last.preClients
        /\ requests = << >>
        /\ Len(requests) = last.preRequests
        /\ rawDir = last.preRawDir
        /\ stateFile = last.pre

\* a cycle without auth file, with no raw-clip directory and a cursor stored
C12_Witness ==
    /\ IsCycle /\ ~authFile
    /\ ~rawDir
    /\ CursorPresent(stateFile)
    /\ clients = 0

\* round(x) of Python for x = x10 / 10 >= 0: to the nearest integer, a half
\* to the even one
RoundTenths(x10) ==
    LET q == x10 \div 10
        r == x10 % 10
    IN IF r < 5 THEN q
       ELSE IF r > 5 THEN q + 1
       ELSE IF q % 2 = 0 THEN q ELSE q + 1

\* the frame indices written for the video processed last
LastIndices ==
    {written[i].idx : i \in {j \in 1..Len(written) :
                                written[j].video = LastEntry.video}}

(* C13: for a processed video of frame rate f > 0 and interval s the       *)
(* stride is round(f * s), rounded to nearest and not truncated, and the   *)
(* frames written are those whose zero-based index is a multiple of the    *)
(* stride, from index 0 on; so a video with at least one frame and fewer   *)
(* frames than one stride yields exactly one frame.                        *)
C13_StrideIsRounded ==
    (Processed /\ cur.opens /\ ~resolution_mismatch(cur.width, cur.height)
       /\ cur.fps10 > 0 /\ RoundTenths(cur.fps10 * interval_seconds) > 0)
    => LET stride == RoundTenths(cur.fps10 * interval_seconds) IN
       /\ LastIndices = {i \in 0..(cur.nframes - 1) : i % stride = 0}
       /\ (cur.nframes >= 1 /\ cur.nframes < stride) => LastEntry.saved = 1

====
